---- MODULE Spec2Model ----
(***************************************************************************)
(* Entity graph and per-tick resource transfer of factorysim               *)
(* (src/src/main.rs).  Entity indices are 0-based as in the source: the    *)
(* parallel arrays are functions over 0..len-1; the adjacency lists are    *)
(* sequences of such indices, in the order the edges were pushed.          *)
(***************************************************************************)
EXTENDS Integers, Sequences, FiniteSets, TLC

\* ---------------------------------------------------------------- bounds
MaxEntities == 3
GridMax == 1
MaxTicks == 2
MaxChainTicks == 200
MagEdge == 3

\* ------------------------------------------------------- Resource (6-46)
U8Max == 255

A(m) == [kind |-> "A", mag |-> m]
B(m) == [kind |-> "B", mag |-> m]

\* variant: wrapping instead of saturating addition
SaturatingAdd_Wrapping(s, o) == (s + o) % (U8Max + 1)

\* u8::saturating_add
SaturatingAdd(s, o) == IF s + o > U8Max THEN U8Max ELSE s + o

\* variant: the subtrahend is dropped
SaturatingSub_Keep(s, o) == s

\* variant: wrapping instead of saturating subtraction
SaturatingSub_Wrapping(s, o) == (s - o) % (U8Max + 1)

\* u8::saturating_sub
SaturatingSub(s, o) == IF s < o THEN 0 ELSE s - o

\* variant: the catch-all arm is never taken
SameVariant_Always(a, b) == TRUE

\* the match arms of add/sub that do not panic: both operands one variant
SameVariant(a, b) == a.kind = b.kind

\* impl Add / AddAssign, value returned when the variants agree
Add(a, b) == [kind |-> a.kind, mag |-> SaturatingAdd(a.mag, b.mag)]

\* variant: the subtraction returns its left operand
Sub_Keep(a, b) == a

\* impl Sub / SubAssign, value returned when the variants agree
Sub(a, b) == [kind |-> a.kind, mag |-> SaturatingSub(a.mag, b.mag)]

\* a call of an operator of Resource on its own: whether it panicked and,
\* if not, the value returned (for += and -= the value left in *self)
ResourceOp(op, a, b) ==
    IF ~SameVariant(a, b)
    THEN [op |-> op, a |-> a, b |-> b, panicked |-> TRUE, val |-> a]
    ELSE [op |-> op, a |-> a, b |-> b, panicked |-> FALSE,
          val |-> IF op \in {"add", "add_assign"} THEN Add(a, b) ELSE Sub(a, b)]

\* derived PartialOrd: variants are ordered by declaration (A before B),
\* and only values of one variant are ordered by their payload
Discriminant(a) == IF a.kind = "A" THEN 0 ELSE 1
Ge(a, b) ==
    IF Discriminant(a) # Discriminant(b)
    THEN Discriminant(a) > Discriminant(b)
    ELSE a.mag >= b.mag

\* variant: the comparison never finds the operands equal
Ne_Always(a, b) == TRUE

\* variant: the comparison always finds the operands equal
Ne_Never(a, b) == FALSE

\* derived PartialEq: same variant and same payload
Ne(a, b) == a.kind # b.kind \/ a.mag # b.mag

\* ------------------------------------------------------ Entities (48-95)
Len0(f) == Cardinality(DOMAIN f)

\* variant: the new element is stored at index 0 and the others shift up
Push_Front(f, x) == [j \in 0..Len0(f) |-> IF j = 0 THEN x ELSE f[j - 1]]

\* Vec::push
Push(f, x) == [j \in 0..Len0(f) |-> IF j < Len0(f) THEN f[j] ELSE x]
Indices(e) == 0..(Len0(e.position) - 1)

\* Entities::new
NewEntities ==
    [wants |-> <<>>, has |-> <<>>, position |-> <<>>, visible |-> <<>>,
     upstream |-> <<>>, downstream |-> <<>>]

\* variant: the `left` alternative of the condition is missing
IsUpOrLeft_OnlyUp(q, p) == q = <<p[1], p[2] - 1>>

\* position[i] is up or left of the new position p
IsUpOrLeft(q, p) == q = <<p[1], p[2] - 1>> \/ q = <<p[1] - 1, p[2]>>
\* position[i] is down or right of the new position p
IsDownOrRight(q, p) == q = <<p[1], p[2] + 1>> \/ q = <<p[1] + 1, p[2]>>

\* variant: the scan pushes i + 1 instead of i
UpstreamOfNew_OffByOne(e, p) ==
    SelectSeq([j \in 1..Len0(e.position) |-> j],
              LAMBDA j : IsUpOrLeft(e.position[j - 1], p))

\* `upstream` of the new entity: the existing indices, in scan order, whose
\* position is up or left of p
UpstreamOfNew(e, p) ==
    SelectSeq([j \in 1..Len0(e.position) |-> j - 1],
              LAMBDA j : IsUpOrLeft(e.position[j], p))

\* variant: the scan pushes i + 1 instead of i
DownstreamOfNew_OffByOne(e, p) ==
    SelectSeq([j \in 1..Len0(e.position) |-> j],
              LAMBDA j : IsDownOrRight(e.position[j - 1], p))

\* `downstream` of the new entity
DownstreamOfNew(e, p) ==
    SelectSeq([j \in 1..Len0(e.position) |-> j - 1],
              LAMBDA j : IsDownOrRight(e.position[j], p))

\* variant: the new index is pushed once for `down` and once for `right`
UpstreamOfOld_PushTwice(e, p) ==
    [j \in Indices(e) |->
        IF IsDownOrRight(e.position[j], p)
        THEN Append(Append(e.upstream[j], Len0(e.position)), Len0(e.position))
        ELSE e.upstream[j]]

\* self.upstream[i].push(len) for every existing i down or right of p
UpstreamOfOld(e, p) ==
    [j \in Indices(e) |->
        IF IsDownOrRight(e.position[j], p)
        THEN Append(e.upstream[j], Len0(e.position)) ELSE e.upstream[j]]

\* variant: the push into the existing entity's downstream list is missing
DownstreamOfOld_NoPush(e, p) == e.downstream

\* self.downstream[i].push(len) for every existing i up or left of p
DownstreamOfOld(e, p) ==
    [j \in Indices(e) |->
        IF IsUpOrLeft(e.position[j], p)
        THEN Append(e.downstream[j], Len0(e.position)) ELSE e.downstream[j]]

\* Entities::insert
InsertOp(e, w, h, p, v) ==
    [wants      |-> Push(e.wants, w),
     has        |-> Push(e.has, h),
     position   |-> Push(e.position, p),
     visible    |-> Push(e.visible, v),
     upstream   |-> Push(UpstreamOfOld(e, p), UpstreamOfNew(e, p)),
     downstream |-> Push(DownstreamOfOld(e, p), DownstreamOfNew(e, p))]

\* setup_chain: the five insertions of the reference scenario
SetupChain ==
    LET e1 == InsertOp(NewEntities, A(1), A(100), <<1, 1>>, TRUE)
        e2 == InsertOp(e1, A(1), A(255), <<1, 2>>, TRUE)
        e3 == InsertOp(e2, A(2), A(64), <<2, 2>>, TRUE)
        e4 == InsertOp(e3, A(2), A(192), <<3, 2>>, TRUE)
    IN  InsertOp(e4, A(5), A(0), <<3, 3>>, TRUE)

\* ------------------------------------------------------------ inputs
\* arguments of insert(): rates and holdings of both kinds, chosen so that
\* full and partial transfers, clamping at 255 and a saturated sink all
\* occur (A: 3 < 5 <= 254; B: 254 < 255); positions on a square grid,
\* duplicates allowed; visible as setup_chain passes it
WantsSet == {A(5), B(255)}
HasSet == {A(3), A(254), B(254)}
Positions == (0..GridMax) \X (0..GridMax)
VisibleSet == {TRUE}

\* ------------------------------------------------------ update (131-147)
\* variant: the partial branch does not empty the source
TransferStep_NoZero(has, wants, s, u) ==
    IF ~Ne(has[s], A(U8Max))
    THEN [has |-> has, branch |-> "skip", aborted |-> FALSE]
    ELSE IF Ge(has[u], wants[s])
    THEN IF ~SameVariant(has[s], wants[s])
         THEN [has |-> has, branch |-> "full", aborted |-> TRUE]
         ELSE LET has1 == [has EXCEPT ![s] = Add(has[s], wants[s])]
              IN  IF ~SameVariant(has1[u], wants[s])
                  THEN [has |-> has1, branch |-> "full", aborted |-> TRUE]
                  ELSE [has |-> [has1 EXCEPT ![u] = Sub(has1[u], wants[s])],
                        branch |-> "full", aborted |-> FALSE]
    ELSE LET remainder == has[u]
         IN  IF ~SameVariant(has[s], remainder)
             THEN [has |-> has, branch |-> "partial", aborted |-> TRUE]
             ELSE [has |-> [has EXCEPT ![s] = Add(has[s], remainder)],
                   branch |-> "partial", aborted |-> FALSE]

\* the body of the inner loop for sink s and source u on holdings has:
\* the holdings it leaves, the branch it took, whether add/sub panicked
TransferStep(has, wants, s, u) ==
    IF ~Ne(has[s], A(U8Max))
    THEN [has |-> has, branch |-> "skip", aborted |-> FALSE]
    ELSE IF Ge(has[u], wants[s])
    THEN IF ~SameVariant(has[s], wants[s])
         THEN [has |-> has, branch |-> "full", aborted |-> TRUE]
         ELSE LET has1 == [has EXCEPT ![s] = Add(has[s], wants[s])]
              IN  IF ~SameVariant(has1[u], wants[s])
                  THEN [has |-> has1, branch |-> "full", aborted |-> TRUE]
                  ELSE [has |-> [has1 EXCEPT ![u] = Sub(has1[u], wants[s])],
                        branch |-> "full", aborted |-> FALSE]
    ELSE LET remainder == has[u]
         IN  IF ~SameVariant(has[s], remainder)
             THEN [has |-> has, branch |-> "partial", aborted |-> TRUE]
             ELSE LET has1 == [has EXCEPT ![s] = Add(has[s], remainder)]
                  IN  [has |-> [has1 EXCEPT ![u] = A(0)],
                       branch |-> "partial", aborted |-> FALSE]

\* the iterations of the two nested loops from entity n on, in the order
\* they run: <<i, u>> for i ascending and u in the recorded order of
\* upstream[i]
RECURSIVE IterationsFrom(_, _)
IterationsFrom(e, n) ==
    IF n >= Len0(e.position)
    THEN <<>>
    ELSE [m \in 1..Len(e.upstream[n]) |-> <<n, e.upstream[n][m]>>]
            \o IterationsFrom(e, n + 1)

\* variant: the outer loop visits the entities in decreasing index order
RECURSIVE IterationsDown(_, _)
IterationsDown(e, n) ==
    IF n < 0
    THEN <<>>
    ELSE [m \in 1..Len(e.upstream[n]) |-> <<n, e.upstream[n][m]>>]
            \o IterationsDown(e, n - 1)

Iterations_Descending(e) == IterationsDown(e, Len0(e.position) - 1)

\* for i in 0..len { for u in &self.upstream[i] { ... } }
Iterations(e) == IterationsFrom(e, 0)

\* runs the iterations its[n..] on holdings has; returns the holdings left,
\* the record of every iteration run, and whether the run panicked (the
\* panic ends the run: the later iterations never happen)
RECURSIVE RunFrom(_, _, _, _)
RunFrom(has, wants, its, n) ==
    IF n > Len(its)
    THEN [has |-> has, steps |-> <<>>, aborted |-> FALSE]
    ELSE LET s   == its[n][1]
             u   == its[n][2]
             r   == TransferStep(has, wants, s, u)
             rec == [sink |-> s, src |-> u,
                     hasSink |-> has[s], hasSrc |-> has[u],
                     newSink |-> r.has[s], newSrc |-> r.has[u],
                     branch |-> r.branch, aborted |-> r.aborted]
         IN  IF r.aborted
             THEN [has |-> r.has, steps |-> <<rec>>, aborted |-> TRUE]
             ELSE LET rest == RunFrom(r.has, wants, its, n + 1)
                  IN  [has |-> rest.has, steps |-> <<rec>> \o rest.steps,
                       aborted |-> rest.aborted]

\* Entities::update
UpdateOp(e) == RunFrom(e.has, e.wants, Iterations(e), 1)

\* ------------------------------------------------------------- state
VARIABLES
    entities,   \* World.entities
    ticks,      \* World.ticks
    pc,         \* "idle": between calls; "panicked": add/sub aborted the
                \* process inside update()
    pre,        \* has as it was when the last call, an update(), began
    steps,      \* the inner-loop iterations that update() ran, in order
    calc        \* the last Resource operator called on its own

vars == <<entities, ticks, pc, pre, steps, calc>>

NoCalc == [op |-> "none", a |-> A(0), b |-> A(0), panicked |-> FALSE,
           val |-> A(0)]

\* World::new, before setup
Init ==
    /\ entities = NewEntities
    /\ ticks = 1
    /\ pc = "idle"
    /\ pre = <<>>
    /\ steps = <<>>
    /\ calc = NoCalc

\* one call of Entities::insert
Insert ==
    /\ pc = "idle"
    /\ Len0(entities.position) < MaxEntities
    /\ \E w \in WantsSet, h \in HasSet, p \in Positions, v \in VisibleSet :
          entities' = InsertOp(entities, w, h, p, v)
    /\ pre' = <<>>
    /\ steps' = <<>>
    /\ UNCHANGED <<ticks, pc, calc>>

\* variant: update() also overwrites the rates with the holdings it leaves
Update_WritesWants ==
    /\ pc = "idle"
    /\ LET r == UpdateOp(entities)
       IN  /\ entities' = [entities EXCEPT !.has = r.has, !.wants = r.has]
           /\ steps' = r.steps
           /\ pc' = IF r.aborted THEN "panicked" ELSE "idle"
           /\ ticks' = IF r.aborted THEN ticks ELSE ticks + 1
    /\ pre' = entities.has
    /\ UNCHANGED calc

\* one call of Entities::update from World::tick; a panic in add/sub leaves
\* the holdings as the iterations before it wrote them
Update ==
    /\ pc = "idle"
    /\ LET r == UpdateOp(entities)
       IN  /\ entities' = [entities EXCEPT !.has = r.has]
           /\ steps' = r.steps
           /\ pc' = IF r.aborted THEN "panicked" ELSE "idle"
           /\ ticks' = IF r.aborted THEN ticks ELSE ticks + 1
    /\ pre' = entities.has
    /\ UNCHANGED calc

Next ==
    \/ Insert
    \/ (ticks <= MaxTicks /\ Update)

Spec == Init /\ [][Next]_vars

\* a well-formed simulation, driven as main drives it: the insertions come
\* before the first tick, and every insert() passes wants and has of the
\* one resource kind the simulation already uses
InsertUniform ==
    /\ pc = "idle"
    /\ ticks = 1
    /\ Len0(entities.position) < MaxEntities
    /\ \E w \in WantsSet, h \in HasSet, p \in Positions, v \in VisibleSet :
          /\ w.kind = h.kind
          /\ \A j \in Indices(entities) : entities.wants[j].kind = w.kind
          /\ entities' = InsertOp(entities, w, h, p, v)
    /\ pre' = <<>>
    /\ steps' = <<>>
    /\ UNCHANGED <<ticks, pc, calc>>

NextUniform ==
    \/ InsertUniform
    \/ (ticks <= MaxTicks /\ Update)

SpecUniform == Init /\ [][NextUniform]_vars

\* main: setup_chain, then the tick loop
InitChain ==
    /\ entities = SetupChain
    /\ ticks = 1
    /\ pc = "idle"
    /\ pre = <<>>
    /\ steps = <<>>
    /\ calc = NoCalc

NextChain == ticks <= MaxChainTicks /\ Update

SpecChain == InitChain /\ [][NextChain]_vars

\* World::tick returns: self.ticks += 1. No update() of the reference
\* scenario panics (all its entities are of kind A), so a tick that has
\* started always returns.
Tick == ticks <= MaxChainTicks /\ pc = "idle" /\ ticks' = ticks + 1

\* main never leaves its loop: as long as a tick can return, one does, and
\* by NextChain the step that advances ticks is an update()
SpecChainLive == InitChain /\ [][NextChain]_vars /\ WF_ticks(Tick)

\* operands of the Resource operators: both kinds, magnitudes at both
\* ends of the u8 range
Mags == (0..MagEdge) \cup ((U8Max - MagEdge)..U8Max)
Resources == {A(m) : m \in Mags} \cup {B(m) : m \in Mags}
Ops == {"add", "add_assign", "sub", "sub_assign"}

\* one call of +, +=, - or -= on two Resource values
Calc ==
    /\ pc = "idle"
    /\ \E op \in Ops, a \in Resources, b \in Resources :
          /\ calc' = ResourceOp(op, a, b)
          /\ pc' = IF calc'.panicked THEN "panicked" ELSE "idle"
    /\ UNCHANGED <<entities, ticks, pre, steps>>

NextArith == Calc

SpecArith == Init /\ [][NextArith]_vars

\* ------------------------------------------------------------ properties
InSeq(x, s) == \E n \in 1..Len(s) : s[n] = x

Min(a, b) == IF a < b THEN a ELSE b

\* the iterations of the last update() call
Steps == 1..Len(steps)

\* iteration n took one of the two transfer branches
Transferred(n) == steps[n].branch \in {"full", "partial"}

\* C1: adjacency symmetry. In every state reached by insert() and update()
\* calls, b is in upstream[a] exactly when a is in downstream[b], and b is
\* in downstream[a] exactly when a is in upstream[b].
C1_AdjacencySymmetry ==
    \A a, b \in Indices(entities) :
        /\ InSeq(b, entities.upstream[a]) <=> InSeq(a, entities.downstream[b])
        /\ InSeq(b, entities.downstream[a]) <=> InSeq(a, entities.upstream[b])

\* an update() has moved resource along an edge into an entity that was
\* inserted before its source
C1_Witness ==
    /\ ticks > 1
    /\ Len0(entities.position) = MaxEntities
    /\ \E n \in Steps :
          /\ Transferred(n)
          /\ steps[n].sink < steps[n].src
          /\ InSeq(steps[n].src, entities.upstream[steps[n].sink])
          /\ InSeq(steps[n].sink, entities.downstream[steps[n].src])

\* C2: upstream is purely positional. Whatever the insertion order, and
\* with duplicate positions, u is in upstream[a] exactly when position[u]
\* is (x, y-1) or (x-1, y) for (x, y) = position[a]; a is in downstream[u]
\* exactly when position[a] is directly below or right of position[u].
C2_UpstreamPositional ==
    \A a, u \in Indices(entities) :
        LET x  == entities.position[a][1]
            y  == entities.position[a][2]
            ux == entities.position[u][1]
            uy == entities.position[u][2]
        IN  /\ InSeq(u, entities.upstream[a])
                <=> (entities.position[u] = <<x, y - 1>>
                     \/ entities.position[u] = <<x - 1, y>>)
            /\ InSeq(a, entities.downstream[u])
                <=> (entities.position[a] = <<ux, uy + 1>>
                     \/ entities.position[a] = <<ux + 1, uy>>)

\* two entities share a position and both are upstream of an entity that
\* was inserted before them
C2_Witness ==
    \E a, u, d \in Indices(entities) :
        /\ a < u /\ u < d
        /\ entities.position[u] = entities.position[d]
        /\ InSeq(u, entities.upstream[a])
        /\ InSeq(d, entities.upstream[a])

\* C3: saturated sink skip. For a sink of either resource kind, an
\* iteration of update() that finds has[i] at magnitude 255 performs no
\* transfer: it changes neither has[i] nor the holding of the upstream
\* neighbour.
C3_SaturatedSinkSkip ==
    \A n \in Steps :
        steps[n].hasSink.mag = U8Max
            => /\ steps[n].newSink = steps[n].hasSink
               /\ steps[n].newSrc = steps[n].hasSrc

\* C4 as stated: in a full transfer (has[u] >= wants[i], has[i] not
\* saturated) has[i] grows by exactly wants[i] and has[u] shrinks by
\* exactly wants[i].
C4_Original ==
    \A n \in Steps :
        (steps[n].branch = "full" /\ ~steps[n].aborted)
            => LET w == entities.wants[steps[n].sink].mag
               IN  /\ steps[n].newSink.mag = steps[n].hasSink.mag + w
                   /\ steps[n].newSrc.mag = steps[n].hasSrc.mag - w

\* C4 amended: in a full transfer has[u] shrinks by exactly wants[i] and
\* has[i] grows by min(wants[i], 255 - has[i]); the two changes are exact
\* negatives of each other exactly when has[i] + wants[i] <= 255.
C4_FullTransfer ==
    \A n \in Steps :
        (steps[n].branch = "full" /\ ~steps[n].aborted)
            => LET w  == entities.wants[steps[n].sink].mag
                   hi == steps[n].hasSink
                   hu == steps[n].hasSrc
               IN  /\ steps[n].newSrc.mag = hu.mag - w
                   /\ steps[n].newSink.mag = hi.mag + Min(w, U8Max - hi.mag)
                   /\ steps[n].newSink.kind = hi.kind
                   /\ steps[n].newSrc.kind = hu.kind
                   /\ (hi.mag + w <= U8Max
                        <=> steps[n].newSink.mag - hi.mag
                            = hu.mag - steps[n].newSrc.mag)

\* a full transfer into a sink that clamps: the source loses more than the
\* sink gains
C4_Witness ==
    \E n \in Steps :
        /\ steps[n].branch = "full" /\ ~steps[n].aborted
        /\ steps[n].hasSink.mag + entities.wants[steps[n].sink].mag > U8Max
        /\ steps[n].newSink.mag = U8Max
        /\ steps[n].newSrc.mag < steps[n].hasSrc.mag

\* C5 as stated: in a partial transfer (has[u] < wants[i], has[i] not
\* saturated) has[u] ends at magnitude zero and has[i] grows by exactly
\* the magnitude has[u] had.
C5_Original ==
    \A n \in Steps :
        (steps[n].branch = "partial" /\ ~steps[n].aborted)
            => /\ steps[n].newSrc.mag = 0
               /\ steps[n].newSink.mag
                    = steps[n].hasSink.mag + steps[n].hasSrc.mag

\* C5 amended: in a partial transfer has[u] ends at magnitude zero and
\* has[i] grows by min(has[u], 255 - has[i]), has[u] being the magnitude
\* before the step: the growth is exact unless the sink clamps at 255.
C5_PartialTransfer ==
    \A n \in Steps :
        (steps[n].branch = "partial" /\ ~steps[n].aborted)
            => LET hi == steps[n].hasSink
                   hu == steps[n].hasSrc
               IN  /\ steps[n].newSrc.mag = 0
                   /\ steps[n].newSink.mag
                        = hi.mag + Min(hu.mag, U8Max - hi.mag)
                   /\ steps[n].newSink.kind = hi.kind

\* a partial transfer into a sink that clamps
C5_Witness ==
    \E n \in Steps :
        /\ steps[n].branch = "partial" /\ ~steps[n].aborted
        /\ steps[n].hasSrc.mag > 0
        /\ steps[n].hasSink.mag + steps[n].hasSrc.mag > U8Max
        /\ steps[n].newSink.mag = U8Max
        /\ steps[n].newSrc.mag = 0

\* C6: kind-preserving zero. A partial transfer leaves has[u] a zero of the
\* kind has[u] had, and after update() every holding has the kind it had
\* when the call began, in simulations of kind A and of kind B.
C6_KindPreserved ==
    /\ \A n \in Steps :
          (steps[n].branch = "partial" /\ ~steps[n].aborted)
              => /\ steps[n].newSrc.mag = 0
                 /\ steps[n].newSrc.kind = steps[n].hasSrc.kind
    /\ \A j \in DOMAIN pre : entities.has[j].kind = pre[j].kind

\* C7: in a simulation whose inserted wants and has are all of one kind,
\* no update() aborts with a kind-mismatch panic.
C7_NoPanic == pc # "panicked"

\* C8: a transfer step with has[i] not saturated and the kind of wants[i]
\* different from the kind of has[u] aborts instead of completing.
C8_MismatchAborts ==
    \A n \in Steps :
        (/\ Transferred(n)
         /\ steps[n].hasSink.mag # U8Max
         /\ entities.wants[steps[n].sink].kind # steps[n].hasSrc.kind)
            => (steps[n].aborted /\ pc = "panicked")

\* the entity of the reference scenario at position p
EntityAt(p) == CHOOSE j \in Indices(entities) : entities.position[j] = p

\* the first update() of the reference scenario has returned
C9_AfterFirst == ticks = 2 /\ pre # <<>>

\* C9 as stated: in the first update() of the reference scenario the
\* entity at (1,2) pulls 1 from the entity at (1,1), whose holding becomes
\* 99, while the holding at (1,2) stays 255.
C9_Original ==
    C9_AfterFirst
        => \E n \in Steps :
              /\ steps[n].sink = EntityAt(<<1, 2>>)
              /\ steps[n].src = EntityAt(<<1, 1>>)
              /\ Transferred(n)
              /\ steps[n].newSrc = A(99)
              /\ steps[n].newSink = A(255)

\* C9 amended: in the first update() of the reference scenario the entity
\* at (1,2), already holding 255, pulls nothing from the entity at (1,1):
\* the holding at (1,1) stays 100 for the whole call and the holding at
\* (1,2) is still 255 after that step.
C9_FirstTick ==
    C9_AfterFirst
        => /\ \A n \in Steps :
                steps[n].sink = EntityAt(<<1, 2>>)
                    => /\ steps[n].src = EntityAt(<<1, 1>>)
                       /\ steps[n].branch = "skip"
                       /\ steps[n].newSrc = A(100)
                       /\ steps[n].newSink = A(255)
           /\ \A n \in Steps :
                steps[n].src = EntityAt(<<1, 1>>) => steps[n].newSrc = A(100)
           /\ entities.has[EntityAt(<<1, 1>>)] = A(100)

\* the step of the entity at (1,2) in the first update() has run
C9_Witness ==
    /\ C9_AfterFirst
    /\ \E n \in Steps :
          /\ steps[n].sink = EntityAt(<<1, 2>>)
          /\ steps[n].src = EntityAt(<<1, 1>>)
          /\ steps[n].hasSink = A(255)
          /\ steps[n].hasSrc = A(100)

\* iteration n transferred from a source with a larger index than its sink
C10_AtStep(n) == Transferred(n) /\ steps[n].src > steps[n].sink

\* no entity processed before the sink of iteration n has the source of
\* iteration n in its upstream list
C10_FirstSink(n) ==
    \A j \in 0..(steps[n].sink - 1) :
        ~InSeq(steps[n].src, entities.upstream[j])

\* C10 as stated: a sink i that pulls from an upstream neighbour u with a
\* larger index reads the holding has[u] had when this update() began.
C10_Original ==
    \A n \in Steps : C10_AtStep(n) => steps[n].hasSrc = pre[steps[n].src]

\* C10 amended: a sink i that pulls from an upstream neighbour u with a
\* larger index reads the holding has[u] had when this update() began,
\* provided no entity with an index smaller than i has u in its upstream
\* list too; such an entity is processed before i and i then reads has[u]
\* as that pull left it.
C10_PreTickRead ==
    \A n \in Steps :
        (C10_AtStep(n) /\ C10_FirstSink(n))
            => steps[n].hasSrc = pre[steps[n].src]

\* the first of two sinks of one source with the largest index pulled and
\* changed the source before the second sink read it
C10_Witness ==
    \E n, m \in Steps :
        /\ n < m
        /\ C10_AtStep(n) /\ C10_FirstSink(n)
        /\ steps[m].src = steps[n].src
        /\ steps[m].sink > steps[n].sink
        /\ steps[n].hasSrc = pre[steps[n].src]
        /\ steps[n].newSrc # steps[n].hasSrc

\* the entity inserted last
Newest == Len0(entities.position) - 1

\* C11: backward-edge guarantee. The entity that insert() has just
\* appended, index n, has only indices smaller than n in upstream[n] and
\* downstream[n]; an index larger than an entity's own is the index of an
\* entity inserted after it.
C11_BackwardEdges ==
    /\ Indices(entities) # {}
          => /\ \A m \in 1..Len(entities.upstream[Newest]) :
                    entities.upstream[Newest][m] < Newest
             /\ \A m \in 1..Len(entities.downstream[Newest]) :
                    entities.downstream[Newest][m] < Newest
    /\ \A j \in Indices(entities) :
          /\ \A m \in 1..Len(entities.upstream[j]) :
                entities.upstream[j][m] \in Indices(entities)
          /\ \A m \in 1..Len(entities.downstream[j]) :
                entities.downstream[j][m] \in Indices(entities)

\* the newest entity has both an upstream and a downstream neighbour
C11_Witness ==
    /\ Indices(entities) # {}
    /\ entities.upstream[Newest] # <<>>
    /\ entities.downstream[Newest] # <<>>

\* C12: no self-loops. In every state reached by insert() and update()
\* calls, also with insertions at occupied positions, no index i is in
\* upstream[i] or in downstream[i].
C12_NoSelfLoops ==
    \A j \in Indices(entities) :
        /\ ~InSeq(j, entities.upstream[j])
        /\ ~InSeq(j, entities.downstream[j])

\* two entities at one position, each with an edge, after an update()
C12_Witness ==
    /\ ticks > 1
    /\ \E a, b \in Indices(entities) :
          /\ a # b
          /\ entities.position[a] = entities.position[b]
          /\ entities.upstream[a] # <<>>
          /\ entities.upstream[b] # <<>>

\* a step of the model that is a call of update(): it returned and the
\* tick was counted, or it panicked
IsUpdateStep == ticks' # ticks \/ pc' # pc

\* a step of the model that is a call of insert()
IsInsertStep == Len0(entities'.position) # Len0(entities.position)

\* C13: update() mutates holdings only. The entity count and every
\* entity's wants, position, visible flag, upstream list and downstream
\* list (contents and order) are after update() what they were before.
C13_UpdateFrame ==
    [][IsUpdateStep
        => /\ DOMAIN entities'.has = DOMAIN entities.has
           /\ entities'.wants = entities.wants
           /\ entities'.position = entities.position
           /\ entities'.visible = entities.visible
           /\ entities'.upstream = entities.upstream
           /\ entities'.downstream = entities.downstream]_vars

\* an update() has changed holdings of a graph with edges
C13_Witness ==
    /\ ticks > 1
    /\ Len0(entities.position) = MaxEntities
    /\ \E n \in Steps : steps[n].newSrc # steps[n].hasSrc
    /\ \E j \in DOMAIN pre : entities.has[j] # pre[j]

\* C17: insert() is append-only with dense indices. The call made when k
\* entities exist stores the new entity at index k, leaves the six arrays
\* with the one length k + 1, leaves wants, has, position and visible of
\* every earlier entity unchanged, and changes an earlier entity's upstream
\* or downstream list at most by appending k at its end.
C17_InsertAppends ==
    [][IsInsertStep
        => LET len == Len0(entities.position)
               old == 0..(len - 1)
           IN  /\ \A f \in {"wants", "has", "position", "visible",
                              "upstream", "downstream"} :
                     /\ DOMAIN entities[f] = old
                     /\ DOMAIN entities'[f] = 0..len
               /\ entities'.wants[len] \in WantsSet
               /\ entities'.has[len] \in HasSet
               /\ entities'.position[len] \in Positions
               /\ entities'.visible[len] \in VisibleSet
               /\ \A j \in old :
                     /\ entities'.wants[j] = entities.wants[j]
                     /\ entities'.has[j] = entities.has[j]
                     /\ entities'.position[j] = entities.position[j]
                     /\ entities'.visible[j] = entities.visible[j]
                     /\ entities'.upstream[j]
                            \in {entities.upstream[j],
                                 Append(entities.upstream[j], len)}
                     /\ entities'.downstream[j]
                            \in {entities.downstream[j],
                                 Append(entities.downstream[j], len)}]_vars

\* three insertions were made and the first entity had the index of the
\* third appended to a list that already held the index of the second
C17_Witness ==
    /\ Len0(entities.position) = 3
    /\ entities.upstream[0] = <<1, 2>>
    /\ entities.wants[2] \in WantsSet
    /\ entities.position[0] # entities.position[2]

\* the sum of the magnitudes f[0..n-1]
RECURSIVE SumMag(_, _)
SumMag(f, n) == IF n = 0 THEN 0 ELSE f[n - 1].mag + SumMag(f, n - 1)

Total(f) == SumMag(f, Len0(f))

\* every rate and every holding before the last update() was of kind A
AllKindA ==
    /\ \A j \in Indices(entities) : entities.wants[j].kind = "A"
    /\ \A j \in DOMAIN pre : pre[j].kind = "A"

\* C18: total holdings never grow. In a simulation of kind A the sum of
\* the magnitudes of has after update() is at most the sum before it.
C18_TotalNeverGrows ==
    (AllKindA /\ DOMAIN pre = DOMAIN entities.has)
        => Total(entities.has) <= Total(pre)

\* an update() of a kind-A simulation in which a sink clamped at 255 and
\* the total dropped
C18_Witness ==
    /\ AllKindA
    /\ pre # <<>>
    /\ \E n \in Steps :
          /\ Transferred(n)
          /\ steps[n].newSink.mag = U8Max
          /\ steps[n].hasSink.mag < U8Max
    /\ Total(entities.has) < Total(pre)

\* s is strictly increasing
StrictlyIncreasing(s) == \A m \in 1..(Len(s) - 1) : s[m] < s[m + 1]

\* C19: adjacency lists are strictly increasing. After any insertions
\* every upstream[i] and every downstream[i] is a strictly increasing
\* sequence of indices, so it has no duplicate and update() visits the
\* neighbours of a sink in increasing index order.
C19_ListsIncreasing ==
    /\ \A j \in Indices(entities) :
          /\ StrictlyIncreasing(entities.upstream[j])
          /\ StrictlyIncreasing(entities.downstream[j])
    /\ \A n, m \in Steps :
          (n < m /\ steps[n].sink = steps[m].sink)
              => steps[n].src < steps[m].src

\* a sink whose upstream list holds an index smaller and an index larger
\* than its own, and an update() that visited both
C19_Witness ==
    \E n, m \in Steps :
        /\ n < m
        /\ steps[n].sink = steps[m].sink
        /\ steps[n].src < steps[n].sink
        /\ steps[m].src > steps[m].sink
        /\ Len(entities.upstream[steps[n].sink]) = 2

Max(a, b) == IF a > b THEN a ELSE b

\* C14: saturating arithmetic. For operands of one kind add and += give
\* magnitude min(a + b, 255), sub and -= give max(a - b, 0), all keep the
\* kind; the result stays within 0..255 and a - a is zero.
C14_Saturating ==
    (calc.op # "none" /\ calc.a.kind = calc.b.kind)
        => /\ ~calc.panicked
           /\ calc.val.kind = calc.a.kind
           /\ calc.val.mag \in 0..U8Max
           /\ calc.op \in {"add", "add_assign"}
                => calc.val.mag = Min(calc.a.mag + calc.b.mag, U8Max)
           /\ calc.op \in {"sub", "sub_assign"}
                => calc.val.mag = Max(calc.a.mag - calc.b.mag, 0)
           /\ (calc.op \in {"sub", "sub_assign"} /\ calc.a = calc.b)
                => calc.val.mag = 0

\* a subtraction of a larger from a smaller magnitude of one kind
C14_Witness ==
    /\ calc.op = "sub_assign"
    /\ calc.a.kind = "B" /\ calc.b.kind = "B"
    /\ calc.a.mag < calc.b.mag
    /\ calc.val = B(0)

\* C15: kind mismatch in arithmetic. add, sub, += and -= on operands of
\* different kinds panic, whatever the magnitudes, and return no value.
C15_MismatchPanics ==
    (calc.op # "none" /\ calc.a.kind # calc.b.kind)
        => (calc.panicked /\ pc = "panicked")

\* an addition of a kind-B value to a kind-A value has panicked
C15_Witness ==
    /\ calc.op = "add"
    /\ calc.a.kind = "A" /\ calc.b.kind = "B"
    /\ calc.panicked
    /\ pc = "panicked"

\* the entities e with every rate doubled
Doubled(e) ==
    [e EXCEPT !.wants = [j \in DOMAIN e.wants |-> Add(e.wants[j], e.wants[j])]]

\* the reference scenario has run exactly two update() calls
C16_AfterSecond == ticks = 3 /\ pre # <<>>

\* C16: update() is per-tick. For the reference scenario the holdings
\* after two consecutive update() calls differ from the holdings after one
\* update() of the initial state with every wants doubled.
C16_NotDoubling ==
    C16_AfterSecond
        => /\ pre = UpdateOp(SetupChain).has
           /\ entities.has # UpdateOp(Doubled(SetupChain)).has

\* the two results: two ticks leave 99, 252, 64, 186, 10 and one tick at
\* doubled rates leaves 100, 251, 64, 186, 10
C16_Witness ==
    /\ C16_AfterSecond
    /\ entities.has = [j \in 0..4 |-> A(<<99, 252, 64, 186, 10>>[j + 1])]
    /\ UpdateOp(Doubled(SetupChain)).has
          = [j \in 0..4 |-> A(<<100, 251, 64, 186, 10>>[j + 1])]

\* a further update() would change no holding
Quiescent == UpdateOp(entities).has = entities.has

\* every transfer of the last update() that changed a holding went from a
\* position with smaller x + y to one with larger x + y
DownGradient ==
    \A n \in Steps :
        (steps[n].newSink # steps[n].hasSink \/ steps[n].newSrc # steps[n].hasSrc)
            => entities.position[steps[n].src][1]
                 + entities.position[steps[n].src][2]
               < entities.position[steps[n].sink][1]
                 + entities.position[steps[n].sink][2]

====
